---- MODULE Spec2Model ----
(***************************************************************************)
(* Model of solarshowdown-api (src/main.go): the GET /solarshowdown        *)
(* handler, the six query functions it calls, the time window resolver     *)
(* calculateRangeStart and the InfluxDB store the queries are sent to.     *)
(*                                                                         *)
(* Numbers.  A float64 x is represented by the integer 1000 * x, so that   *)
(* 9.5 kWh is 9500 and 2500 W is 2500000; every fixture value is a         *)
(* multiple of 1000 for watts, which keeps watts / 1000 exact.             *)
(* Time.  An instant is a count of seconds since EpochYear-01-01T00:00:00Z *)
(* (time.Time without its sub-second part); a location has a fixed offset  *)
(* to UTC (no daylight saving change inside the modelled instants).        *)
(* Strings that are built with fmt are tuples of their parts; the empty    *)
(* tuple is the empty string.                                              *)
(***************************************************************************)
EXTENDS Integers, Sequences, FiniteSets, TLC

VARIABLES
    config,     \* *Config built by loadConfig, shared by every request
    tz,         \* offset of time.Local to UTC, in seconds (the container's TZ)
    clk,        \* position of the wall clock in Clock
    points,     \* the store: the set of points written so far
    cond,       \* the store's condition, which decides how the next query ends
    events,     \* how many times the store has changed since start-up
    req,        \* per request: the handler's position, locals and response
    probe       \* a call of calculateRangeStart on its own: input and result

vars == <<config, tz, clk, points, cond, events, req, probe>>

----------------------------------------------------------------------------
(* Bounds of the model *)

\* number of changes of the store (a point written, or its condition
\* changing) while requests are served
MaxEvents == 1

----------------------------------------------------------------------------
(* package time: the part calculateRangeStart and queryMeasurement use *)

\* the calendar years the model's instants lie in; the first is the epoch
Years == 2023 .. 2025
EpochYear == CHOOSE y \in Years : \A z \in Years : y <= z

isLeap(year) == (year % 4 = 0) /\ ((year % 100 # 0) \/ (year % 400 = 0))

daysIn(year) == IF isLeap(year) THEN 366 ELSE 365

\* days before month m (1..13) of a year, Go's daysBefore table
daysBefore(year, m) ==
    <<0, 31, 59, 90, 120, 151, 181, 212, 243, 273, 304, 334, 365>>[m]
      + (IF isLeap(year) /\ m >= 3 THEN 1 ELSE 0)

RECURSIVE daysSinceEpoch(_)
daysSinceEpoch(year) ==
    IF year <= EpochYear THEN 0
    ELSE daysSinceEpoch(year - 1) + daysIn(year - 1)

\* offset of a location to UTC
Offset(loc) == IF loc = "UTC" THEN 0 ELSE tz

\* time.Date once the month is in 1..12: the days are counted, so a day
\* outside the month runs into the neighbouring months
DateOf(year, month, day, hour, min, sec, loc) ==
    [unix |-> (daysSinceEpoch(year) + daysBefore(year, month) + (day - 1)) * 86400
                 + hour * 3600 + min * 60 + sec - Offset(loc),
     loc |-> loc]

\* time.Date: a month outside 1..12 is normalised into the year
Date(year, month, day, hour, min, sec, loc) ==
    DateOf(year + ((month - 1) \div 12), ((month - 1) % 12) + 1,
           day, hour, min, sec, loc)

\* the year a day count (days since the epoch) lies in
YearOfDays(days) ==
    CHOOSE yy \in Years :
        daysSinceEpoch(yy) <= days /\ days < daysSinceEpoch(yy) + daysIn(yy)

\* the month a day of a year (0-based) lies in
MonthOfYday(year, yday) ==
    CHOOSE mm \in 1..12 :
        daysBefore(year, mm) <= yday /\ yday < daysBefore(year, mm + 1)

CivilFields(year, month, yday, tod) ==
    [year |-> year, month |-> month, day |-> yday - daysBefore(year, month) + 1,
     hour |-> tod \div 3600, min |-> (tod % 3600) \div 60, sec |-> tod % 60]

CivilOfYday(year, yday, tod) ==
    CivilFields(year, MonthOfYday(year, yday), yday, tod)

CivilOfDays(year, days, tod) ==
    CivilOfYday(year, days - daysSinceEpoch(year), tod)

CivilOfAbs(abs) ==
    CivilOfDays(YearOfDays(abs \div 86400), abs \div 86400, abs % 86400)

\* Time.Date() and Time.Clock(): the civil date and clock of a Time in its
\* own location
Civil(t) == CivilOfAbs(t.unix + Offset(t.loc))

AddCivil(c, years, months, days, loc) ==
    Date(c.year + years, c.month + months, c.day + days, c.hour, c.min, c.sec, loc)

\* Time.AddDate
AddDate(t, years, months, days) == AddCivil(Civil(t), years, months, days, t.loc)

\* Time.UTC: the same instant, shown in UTC
UTC(t) == [t EXCEPT !.loc = "UTC"]

FormatCivil(c, offset) == <<c.year, c.month, c.day, c.hour, c.min, c.sec, offset>>

\* Time.Format(time.RFC3339): the civil fields and the zone offset
FormatRFC3339(t) == FormatCivil(Civil(t), Offset(t.loc))

\* the instant an RFC3339 text denotes, as the store reads it
ParseRFC3339(s) ==
    Date(s[1], s[2], s[3], s[4], s[5], s[6], "UTC").unix - s[7]

----------------------------------------------------------------------------
(* The wall clock and the configuration *)

\* the local wall-clock instants the clock steps through while requests are
\* served: the last minute of a day, and the first and the second minute of
\* the next one
Clock ==
    << Date(2024, 3, 30, 23, 59, 30, "Local"),
       Date(2024, 3, 31, 0, 0, 30, "Local"),
       Date(2024, 3, 31, 0, 1, 30, "Local") >>

\* time.Now()
Now == Clock[clk]

\* offsets of time.Local the model starts with (west and east of UTC)
TZOffsets == {-28800, 3600}

\* loadConfig with every required variable set
loadConfig ==
    [InfluxDBURL |-> "http://influx:8086", InfluxDBToken |-> "token",
     InfluxDBOrg |-> "org", InfluxDBBucket |-> "bucket",
     ServerPort |-> "8080", Dongle |-> "dongle"]

----------------------------------------------------------------------------
(* Errors and values *)

\* a nil error; any other error is the tuple of the parts of its message
Nil == <<>>

\* a nil interface{} value, and typed values
NilValue == [type |-> "nil", v |-> 0]
Float(v) == [type |-> "float64", v |-> v]
Int64(v) == [type |-> "int64", v |-> v]

\* the zero time.Time
ZeroTime == [unix |-> 0, loc |-> "UTC"]

----------------------------------------------------------------------------
(* calculateRangeStart *)

Timeframes == {"day", "week", "month"}

\* the minute added to local midnight
GraceMinute == 1

\* time.Date(now.Year(), now.Month(), now.Day(), 0, 1, 0, 0, time.Local)
localMidnight(c) == Date(c.year, c.month, c.day, 0, GraceMinute, 0, "Local")

\* calculateRangeStart taking midnight of the UTC day instead of the local day
calculateRangeStartAtUTCDay(timeframe, now) ==
    CASE timeframe = "day" ->
            [time |-> Date(Civil(UTC(now)).year, Civil(UTC(now)).month,
                           Civil(UTC(now)).day, 0, GraceMinute, 0, "UTC"),
             err |-> Nil]
      [] timeframe = "week" ->
            [time |-> UTC(AddDate(now, 0, 0, -7)), err |-> Nil]
      [] timeframe = "month" ->
            [time |-> UTC(AddDate(now, 0, -1, 0)), err |-> Nil]
      [] OTHER ->
            [time |-> ZeroTime, err |-> <<"invalid timeframe", timeframe>>]

\* calculateRangeStart whose default case falls back to the day window
calculateRangeStartAtDefaultDay(timeframe, now) ==
    CASE timeframe = "week" ->
            [time |-> UTC(AddDate(now, 0, 0, -7)), err |-> Nil]
      [] timeframe = "month" ->
            [time |-> UTC(AddDate(now, 0, -1, 0)), err |-> Nil]
      [] OTHER ->
            [time |-> UTC(localMidnight(Civil(now))), err |-> Nil]

calculateRangeStartAt(timeframe, now) ==
    CASE timeframe = "day" ->
            [time |-> UTC(localMidnight(Civil(now))), err |-> Nil]
      [] timeframe = "week" ->
            [time |-> UTC(AddDate(now, 0, 0, -7)), err |-> Nil]
      [] timeframe = "month" ->
            [time |-> UTC(AddDate(now, 0, -1, 0)), err |-> Nil]
      [] OTHER ->
            [time |-> ZeroTime, err |-> <<"invalid timeframe", timeframe>>]

calculateRangeStart(timeframe) == calculateRangeStartAt(timeframe, Now)

----------------------------------------------------------------------------
(* The store: InfluxDB behind client.QueryAPI *)

PvMeasurements == <<"lux_Epv1_day", "lux_Epv2_day", "lux_Epv3_day">>

Measurements ==
    {"lux_Epv1_day", "lux_Epv2_day", "lux_Epv3_day", "lux_Etouser_day",
     "lux_Edischg_day", "lux_Etogrid_day", "lux_Echg_day", "lux_Pall"}

\* what the inverter has reported by start-up: 10 kWh generated (4 + 3.5 +
\* 2.5), 2 imported, 1 discharged, 3 exported, 0.5 charged, a peak of 2500 W
FixtureValue ==
    [m \in Measurements |->
        CASE m = "lux_Epv1_day"    -> 4000
          [] m = "lux_Epv2_day"    -> 3500
          [] m = "lux_Epv3_day"    -> 2500
          [] m = "lux_Etouser_day" -> 2000
          [] m = "lux_Edischg_day" -> 1000
          [] m = "lux_Etogrid_day" -> 3000
          [] m = "lux_Echg_day"    -> 500
          [] OTHER                 -> 2500000]

\* the instant of the points present at start-up: noon of the first day
FixtureTime == Date(2024, 3, 30, 12, 0, 0, "Local").unix

Point(bucket, m, field, dongle, t, v) ==
    [bucket |-> bucket, measurement |-> m, field |-> field, dongle |-> dongle,
     t |-> t, v |-> v]

\* the points in the store at start-up: one per measurement of the configured
\* dongle, and larger ones of another dongle and of another field
FixturePoints ==
    { Point("bucket", m, "value", "dongle", FixtureTime, FixtureValue[m]) :
        m \in Measurements }
    \cup { Point("bucket", m, "value", "other", FixtureTime, FixtureValue[m] + 7000) :
        m \in Measurements }
    \cup { Point("bucket", m, "raw", "dongle", FixtureTime, FixtureValue[m] + 9000) :
        m \in Measurements }

\* how a query can end at the store
Conditions == {"ok", "submitError", "readError", "nilValue", "notFloat"}

Max(S) == CHOOSE x \in S : \A y \in S : y <= x

\* the Flux query of queryMeasurement, run on the store's points:
\* range(start) |> filter(_measurement) |> filter(_field) |> filter(dongle) |> max()
FluxRange(query, start) ==
    { p \in points :
        /\ p.bucket = query.bucket
        /\ p.t >= start
        /\ p.measurement = query.measurement
        /\ p.field = query.field
        /\ p.dongle = query.dongle }

FluxRows(hit) ==
    IF hit = {} THEN <<>> ELSE << Float(Max({ p.v : p \in hit })) >>

FluxMax(query) == FluxRows(FluxRange(query, ParseRFC3339(query.start)))

\* queryAPI.Query: the submission's error, and the result with the rows that
\* are left to read and the error Next() ran into
QueryAPIQuery(query) ==
    CASE cond = "submitError" ->
            [err |-> <<"connection refused">>, result |-> [rows |-> <<>>, err |-> Nil]]
      [] cond = "readError" ->
            [err |-> Nil, result |-> [rows |-> <<>>, err |-> <<"unexpected EOF">>]]
      [] cond = "nilValue" ->
            [err |-> Nil, result |-> [rows |-> <<NilValue>>, err |-> Nil]]
      [] cond = "notFloat" ->
            [err |-> Nil, result |-> [rows |-> <<Int64(1000)>>, err |-> Nil]]
      [] OTHER ->
            [err |-> Nil, result |-> [rows |-> FluxMax(query), err |-> Nil]]

\* what happened at the store, for the log of a request's queries
StoreOutcome(q) ==
    CASE q.err # Nil        -> "submitError"
      [] q.result.err # Nil -> "readError"
      [] q.result.rows = <<>> -> "noRows"
      [] OTHER              -> q.result.rows[1].type

----------------------------------------------------------------------------
(* processQueryResult and queryMeasurement *)

\* processQueryResult, lines 84-95: the first record's value
processRecord(value, resultErr) ==
    IF value = NilValue
    THEN [value |-> 0, err |-> Nil]
    ELSE IF value.type # "float64"
    THEN [value |-> 0, err |-> <<"unexpected value type", value.type>>]
    ELSE [value |-> value.v, err |-> resultErr]

processQueryResult(result) ==
    IF result.rows = <<>>                      \* !result.Next()
    THEN [value |-> 0, err |-> Nil]
    ELSE processRecord(result.rows[1], result.err)

\* the query text of queryMeasurement, by its parts
FluxQuery(measurement, start) ==
    [bucket |-> config.InfluxDBBucket, start |-> FormatRFC3339(start),
     measurement |-> measurement, field |-> "value", dongle |-> config.Dongle]

\* queryMeasurement, with the store's outcome beside the (value, error) pair
WithOutcome(p, outcome) == [value |-> p.value, err |-> p.err, outcome |-> outcome]

\* queryMeasurement, lines 114-118
queryMeasurementOf(measurement, q) ==
    IF q.err # Nil
    THEN [value |-> 0, err |-> <<"query failed for", measurement, q.err>>,
          outcome |-> StoreOutcome(q)]
    ELSE WithOutcome(processQueryResult(q.result), StoreOutcome(q))

queryMeasurement(measurement, start) ==
    queryMeasurementOf(measurement, QueryAPIQuery(FluxQuery(measurement, start)))

----------------------------------------------------------------------------
(* The handler's state *)

\* the requests the server accepts
Requests == {"r1", "r2"}

Methods == {"GET", "POST"}

\* values of the timeframe query parameter; "" is a request without it
Tokens == {"", "day", "week", "month", "year"}

\* Response, the JSON body
Response(generated, consumed, exported, imported, discharged, maxPv, error) ==
    [Generated |-> generated, Consumed |-> consumed, Exported |-> exported,
     Imported |-> imported, Discharged |-> discharged, MaxPv |-> maxPv,
     Error |-> error]

\* Response{Error: err.Error()}
ErrorResponse(err) == Response(0, 0, 0, 0, 0, 0, err)

\* what was written to the http.ResponseWriter
NoReply == [status |-> 0, contentType |-> "", text |-> "", json |-> ErrorResponse(Nil)]

StatusOK == 200
StatusBadRequest == 400
StatusMethodNotAllowed == 405
StatusInternalServerError == 500

\* a handler's locals before it runs; consumedOf keeps the locals of
\* queryConsumed, and qlog the store queries the request has issued
IdleRequest ==
    [pc |-> "idle", method |-> "", param |-> "", timeframe |-> "",
     i |-> 0, start |-> ZeroTime, cstart |-> ZeroTime, total |-> 0,
     generated |-> 0, consumed |-> 0, exported |-> 0, imported |-> 0,
     discharged |-> 0, maxPv |-> 0,
     consumedOf |-> [generated |-> 0, touser |-> 0, dischg |-> 0,
                     togrid |-> 0, chg |-> 0],
     err |-> Nil, reply |-> NoReply, qlog |-> <<>>]

\* the entry a store query leaves in the request's log
LogEntry(site, measurement, q) ==
    [site |-> site, measurement |-> measurement,
     outcome |-> q.outcome, value |-> q.value, err |-> q.err]

\* queryMeasurement called by request record rq at a call site: the call's
\* error is left in rq.err, and the query with its value in the log
Logged(rq, site, measurement, q) ==
    [rq EXCEPT !.err = q.err, !.qlog = Append(@, LogEntry(site, measurement, q))]

Call(rq, site, measurement, start) ==
    Logged(rq, site, measurement, queryMeasurement(measurement, start))

\* the value the last logged query returned
Ret(rq) == rq.qlog[Len(rq.qlog)].value

\* a query function returns to the handler: its locals are gone
Return(rq) ==
    [rq EXCEPT !.i = 0, !.total = 0, !.start = ZeroTime, !.cstart = ZeroTime]

\* w.WriteHeader(500); Encode(Response{Error: err.Error()}); return
Fail(rq) ==
    [Return(rq) EXCEPT !.pc = "done",
               !.reply = [status |-> StatusInternalServerError, contentType |-> "",
                          text |-> "", json |-> ErrorResponse(rq.err)]]

----------------------------------------------------------------------------
(* The query functions, as steps on a request's locals *)

\* total kept in a package-level variable that every request adds to
AddTotalShared(rq, value) == Max({ req[q].total : q \in Requests }) + value

\* total += value
AddTotal(rq, value) == rq.total + value

\* queryGenerated, lines 122-128: the window, then the loop's start
queryGeneratedEntered(rq, cr) ==
    [rq EXCEPT !.start = cr.time, !.err = cr.err, !.total = 0, !.i = 1]

queryGeneratedEnter(rq) == queryGeneratedEntered(rq, calculateRangeStart(rq.timeframe))

\* queryGenerated, lines 130-136: one iteration of the loop
Accumulate(c) ==
    IF c.err # Nil THEN c
    ELSE [c EXCEPT !.total = AddTotal(c, Ret(c)), !.i = @ + 1]

queryGeneratedIter(rq, site) ==
    Accumulate(Call(rq, site, PvMeasurements[rq.i], rq.start))

\* the loop's next iteration unless the function has returned an error
IterUnlessErr(rq, site) ==
    IF rq.err # Nil THEN rq ELSE queryGeneratedIter(rq, site)

\* queryGenerated up to and including its next store query
queryGeneratedStep(rq, site) ==
    IF rq.i = 0 THEN IterUnlessErr(queryGeneratedEnter(rq), site)
    ELSE queryGeneratedIter(rq, site)

\* queryConsumed, lines 142-145: its own window
queryConsumedEntered(rq, cr) == [rq EXCEPT !.cstart = cr.time, !.err = cr.err]

queryConsumedEnter(rq) == queryConsumedEntered(rq, calculateRangeStart(rq.timeframe))

ConsumedMeasurements ==
    <<"lux_Etouser_day", "lux_Edischg_day", "lux_Etogrid_day", "lux_Echg_day">>

ConsumedLocals == <<"touser", "dischg", "togrid", "chg">>

\* the formula with the battery charge added instead of subtracted
ConsumedFormulaChargeAdded(generated, touser, dischg, togrid, chg) ==
    generated + touser + dischg - togrid + chg

\* queryConsumed, line 172
ConsumedFormula(generated, touser, dischg, togrid, chg) ==
    generated + touser + dischg - (togrid + chg)

\* queryConsumed, lines 152-170: the rq.i-th of its four own queries
Assign(c, local) ==
    IF c.err # Nil THEN c
    ELSE [c EXCEPT !.consumedOf[local] = Ret(c), !.i = @ + 1]

queryConsumedIter(rq) ==
    Assign(Call(rq, "consumed", ConsumedMeasurements[rq.i], rq.cstart),
           ConsumedLocals[rq.i])

\* queryExported, queryImported, queryDischarged: the window, then one query
querySingleFrom(rq, site, measurement, cr) ==
    IF cr.err # Nil THEN [rq EXCEPT !.err = cr.err]
    ELSE Call(rq, site, measurement, cr.time)

querySingle(rq, site, measurement) ==
    querySingleFrom(rq, site, measurement, calculateRangeStart(rq.timeframe))

queryExported(rq) == querySingle(rq, "exported", "lux_Etogrid_day")

\* queryImported copied from queryExported with the measurement left as it was
queryImportedOfExported(rq) == querySingle(rq, "imported", "lux_Etogrid_day")

queryImported(rq) == querySingle(rq, "imported", "lux_Etouser_day")

queryDischarged(rq) == querySingle(rq, "discharged", "lux_Edischg_day")

WattsPerKilowatt == 1000

\* watts / 1000
ToKilowatts(watts) == watts \div WattsPerKilowatt

queryMaxPv(rq) == querySingle(rq, "maxPv", "lux_Pall")

----------------------------------------------------------------------------
(* handleSolarShowdown: one action per store query of the handler *)

\* lines 218-226: the method check and the timeframe parameter's default
ServeRequest(r, method, param) ==
    /\ req[r].pc = "idle"
    /\ req' = [req EXCEPT ![r] =
          IF method # "GET"
          THEN [@ EXCEPT !.pc = "done", !.method = method, !.param = param,
                         !.reply = [status |-> StatusMethodNotAllowed,
                                    contentType |-> "text/plain",
                                    text |-> "Method not allowed",
                                    json |-> ErrorResponse(Nil)]]
          ELSE [@ EXCEPT !.pc = "generated", !.method = method, !.param = param,
                         !.timeframe = IF param = "" THEN "day" ELSE param]]
    /\ UNCHANGED <<config, tz, clk, points, cond, events, probe>>

\* lines 228-233: generated, err := queryGenerated(...)
AfterGenerated(b) ==
    IF b.err # Nil THEN Fail(b)
    ELSE IF b.i <= Len(PvMeasurements) THEN b
    ELSE Return([b EXCEPT !.generated = b.total, !.pc = "consumed.generated"])

StepGenerated(r) ==
    /\ req[r].pc = "generated"
    /\ req' = [req EXCEPT ![r] =
                  AfterGenerated(queryGeneratedStep(req[r], "generated"))]
    /\ UNCHANGED <<config, tz, clk, points, cond, events, probe>>

\* queryConsumed, lines 142-150: its window, then its call of queryGenerated
queryConsumedGenerated(rq) ==
    IF rq.i = 0
    THEN IterUnlessErr(queryGeneratedEnter(queryConsumedEnter(rq)), "consumed.generated")
    ELSE queryGeneratedIter(rq, "consumed.generated")

AfterConsumedGenerated(b) ==
    IF b.err # Nil THEN Fail(b)
    ELSE IF b.i <= Len(PvMeasurements) THEN b
    ELSE [b EXCEPT !.consumedOf.generated = b.total, !.pc = "consumed",
                   !.i = 1, !.total = 0, !.start = ZeroTime]

\* lines 235-240, inside queryConsumed: lines 142-150
StepConsumedGenerated(r) ==
    /\ req[r].pc = "consumed.generated"
    /\ req' = [req EXCEPT ![r] =
                  AfterConsumedGenerated(queryConsumedGenerated(req[r]))]
    /\ UNCHANGED <<config, tz, clk, points, cond, events, probe>>

\* queryConsumed, line 172, and the handler's assignment of line 235
ConsumedOf(c) == ConsumedFormula(c.generated, c.touser, c.dischg, c.togrid, c.chg)

AfterConsumed(b) ==
    IF b.err # Nil THEN Fail(b)
    ELSE IF b.i <= Len(ConsumedMeasurements) THEN b
    ELSE Return([b EXCEPT !.consumed = ConsumedOf(b.consumedOf), !.pc = "exported"])

\* lines 235-240, inside queryConsumed: lines 152-172
StepConsumed(r) ==
    /\ req[r].pc = "consumed"
    /\ req' = [req EXCEPT ![r] = AfterConsumed(queryConsumedIter(req[r]))]
    /\ UNCHANGED <<config, tz, clk, points, cond, events, probe>>

AfterExported(b) ==
    IF b.err # Nil THEN Fail(b)
    ELSE [b EXCEPT !.exported = Ret(b), !.pc = "imported"]

\* lines 242-247
StepExported(r) ==
    /\ req[r].pc = "exported"
    /\ req' = [req EXCEPT ![r] = AfterExported(queryExported(req[r]))]
    /\ UNCHANGED <<config, tz, clk, points, cond, events, probe>>

AfterImported(b) ==
    IF b.err # Nil THEN Fail(b)
    ELSE [b EXCEPT !.imported = Ret(b), !.pc = "discharged"]

\* lines 249-254
StepImported(r) ==
    /\ req[r].pc = "imported"
    /\ req' = [req EXCEPT ![r] = AfterImported(queryImported(req[r]))]
    /\ UNCHANGED <<config, tz, clk, points, cond, events, probe>>

AfterDischarged(b) ==
    IF b.err # Nil THEN Fail(b)
    ELSE [b EXCEPT !.discharged = Ret(b), !.pc = "maxPv"]

\* lines 256-261
StepDischarged(r) ==
    /\ req[r].pc = "discharged"
    /\ req' = [req EXCEPT ![r] = AfterDischarged(queryDischarged(req[r]))]
    /\ UNCHANGED <<config, tz, clk, points, cond, events, probe>>

\* the response with Exported and Imported filled from each other's local
RespondSwapped(rq) ==
    [rq EXCEPT !.pc = "done",
               !.reply = [status |-> StatusOK, contentType |-> "application/json",
                          text |-> "",
                          json |-> Response(rq.generated, rq.consumed, rq.imported,
                                            rq.exported, rq.discharged, rq.maxPv,
                                            Nil)]]

\* lines 270-280: the response with the six quantities
Respond(rq) ==
    [rq EXCEPT !.pc = "done",
               !.reply = [status |-> StatusOK, contentType |-> "application/json",
                          text |-> "",
                          json |-> Response(rq.generated, rq.consumed, rq.exported,
                                            rq.imported, rq.discharged, rq.maxPv,
                                            Nil)]]

AfterMaxPv(b) ==
    IF b.err # Nil THEN Fail(b)
    ELSE Respond([b EXCEPT !.maxPv = ToKilowatts(Ret(b))])

\* lines 263-280
StepMaxPv(r) ==
    /\ req[r].pc = "maxPv"
    /\ req' = [req EXCEPT ![r] = AfterMaxPv(queryMaxPv(req[r]))]
    /\ UNCHANGED <<config, tz, clk, points, cond, events, probe>>

\* the goroutine of a served request ends; the server accepts another
Finish(r) ==
    /\ req[r].pc = "done"
    /\ req' = [req EXCEPT ![r] = IdleRequest]
    /\ UNCHANGED <<config, tz, clk, points, cond, events, probe>>

handleSolarShowdown(r) ==
    \/ StepGenerated(r)
    \/ StepConsumedGenerated(r)
    \/ StepConsumed(r)
    \/ StepExported(r)
    \/ StepImported(r)
    \/ StepDischarged(r)
    \/ StepMaxPv(r)

----------------------------------------------------------------------------
(* The environment: the clock, the inverter's writes, the store's condition *)

Tick ==
    /\ clk < Len(Clock)
    /\ clk' = clk + 1
    /\ UNCHANGED <<config, tz, points, cond, events, req, probe>>

\* the counter's increment of a write
WriteStep(m) == IF m = "lux_Pall" THEN 500000 ELSE 1000

\* the largest value the configured dongle has reported of measurement m
Latest(m) ==
    Max({ p.v : p \in { x \in points : x.measurement = m /\ x.dongle = config.Dongle
                                        /\ x.field = "value" } })

\* the inverter reports a new, larger counter value of measurement m
StoreWrite(m) ==
    /\ events < MaxEvents
    /\ points' = points \cup
          { Point(config.InfluxDBBucket, m, "value", config.Dongle, Now.unix,
                  Latest(m) + WriteStep(m)) }
    /\ events' = events + 1
    /\ UNCHANGED <<config, tz, clk, cond, req, probe>>

\* the store or the network changes condition
StoreCondition(k) ==
    /\ events < MaxEvents
    /\ k # cond
    /\ cond' = k
    /\ events' = events + 1
    /\ UNCHANGED <<config, tz, clk, points, req, probe>>

----------------------------------------------------------------------------
(* calculateRangeStart called on its own, at an instant of a calendar *)

\* local dates and clock times of the probed instants: ends of months, the
\* day after February in a leap and in a common year, around midnight and
\* around the grace instant
ProbeDates ==
    { <<2024, 1, 1>>, <<2024, 1, 31>>, <<2024, 3, 1>>, <<2024, 3, 31>>,
      <<2024, 7, 15>>, <<2024, 12, 31>>, <<2025, 3, 1>>, <<2025, 3, 31>> }

ProbeClocks ==
    { <<0, 0, 0>>, <<0, 0, 59>>, <<0, 1, 0>>, <<0, 1, 1>>, <<12, 0, 0>>,
      <<23, 59, 59>> }

ProbeTokens == {"day", "week", "month", "", "year", "Day"}

NoProbe == [token |-> "", now |-> ZeroTime, called |-> FALSE,
            out |-> [time |-> ZeroTime, err |-> Nil]]

\* the clock is read at some instant and the token arrives
Arrive(token, d, c) ==
    /\ ~probe.called
    /\ probe.now = ZeroTime
    /\ probe' = [probe EXCEPT !.token = token,
                    !.now = Date(d[1], d[2], d[3], c[1], c[2], c[3], "Local")]
    /\ UNCHANGED <<config, tz, clk, points, cond, events, req>>

\* calculateRangeStart(token) at that instant
Resolve ==
    /\ ~probe.called
    /\ probe.now # ZeroTime
    /\ probe' = [probe EXCEPT !.called = TRUE,
                    !.out = calculateRangeStartAt(probe.token, probe.now)]
    /\ UNCHANGED <<config, tz, clk, points, cond, events, req>>

----------------------------------------------------------------------------
(* Specifications *)

Init ==
    /\ config = loadConfig
    /\ tz = Max(TZOffsets)
    /\ clk = 1
    /\ points = FixturePoints
    /\ cond \in Conditions
    /\ events = 0
    /\ req = [r \in Requests |-> IdleRequest]
    /\ probe = NoProbe

\* the requests of a client that sends one request at a time
Serial(r) == r = "r1" /\ \A q \in Requests \ {r} : req[q].pc = "idle"

\* the server serving one request at a time, in a changing environment
Next ==
    \/ \E r \in Requests, method \in Methods, param \in Tokens :
          Serial(r) /\ ServeRequest(r, method, param)
    \/ \E r \in Requests : handleSolarShowdown(r)
    \/ \E r \in Requests : Finish(r)
    \/ Tick
    \/ \E m \in Measurements : StoreWrite(m)
    \/ \E k \in Conditions : StoreCondition(k)

Spec == Init /\ [][Next]_vars


\* the resolver alone, at every probed instant, in either time zone
InitResolver ==
    /\ config = loadConfig
    /\ tz \in TZOffsets
    /\ clk = 1
    /\ points = FixturePoints
    /\ cond = "ok"
    /\ events = 0
    /\ req = [r \in Requests |-> IdleRequest]
    /\ probe = NoProbe

NextResolver ==
    \/ \E token \in ProbeTokens, d \in ProbeDates, c \in ProbeClocks :
          Arrive(token, d, c)
    \/ Resolve

SpecResolver == InitResolver /\ [][NextResolver]_vars

\* requests served concurrently on fixture data: the store and the clock are
\* whatever they are at start-up and do not change
InitConcurrent ==
    /\ config = loadConfig
    /\ tz = Max(TZOffsets)
    /\ clk \in 1..Len(Clock)
    /\ points = FixturePoints
    /\ cond \in Conditions
    /\ events = 0
    /\ req = [r \in Requests |-> IdleRequest]
    /\ probe = NoProbe

NextConcurrent ==
    \/ \E r \in Requests, method \in Methods, param \in Tokens :
          ServeRequest(r, method, param)
    \/ \E r \in Requests : handleSolarShowdown(r)

SpecConcurrent == InitConcurrent /\ [][NextConcurrent]_vars


----------------------------------------------------------------------------
(* What the claims speak of *)

\* the store call of a logged query failed: at submission or while reading
StoreFailed(e) == e.outcome \in {"submitError", "readError"}

\* a logged measurement query failed: at the store, or on its value's type
QueryFailed(e) == StoreFailed(e) \/ e.err # Nil

\* the handler has answered a GET request
Served(r) == req[r].pc = "done" /\ req[r].method = "GET"

\* the handler has answered with the six quantities
Succeeded(r) == Served(r) /\ req[r].reply.status = StatusOK

FailedQueries(r) == { i \in DOMAIN req[r].qlog : QueryFailed(req[r].qlog[i]) }

Min(S) == CHOOSE x \in S : \A y \in S : x <= y

\* the store queries of a request that runs to its end, in order
HandlerQueries ==
    << <<"generated", "lux_Epv1_day">>, <<"generated", "lux_Epv2_day">>,
       <<"generated", "lux_Epv3_day">>,
       <<"consumed.generated", "lux_Epv1_day">>,
       <<"consumed.generated", "lux_Epv2_day">>,
       <<"consumed.generated", "lux_Epv3_day">>,
       <<"consumed", "lux_Etouser_day">>, <<"consumed", "lux_Edischg_day">>,
       <<"consumed", "lux_Etogrid_day">>, <<"consumed", "lux_Echg_day">>,
       <<"exported", "lux_Etogrid_day">>, <<"imported", "lux_Etouser_day">>,
       <<"discharged", "lux_Edischg_day">>, <<"maxPv", "lux_Pall">> >>

\* the second of the local day an instant falls on, and that day's midnight
LocalSecondOfDay(now) == (now.unix + tz) % 86400
LocalMidnightUnix(now) == now.unix - LocalSecondOfDay(now)

----------------------------------------------------------------------------
(* C1 *)

\* C1: a GET request one of whose measurement queries failed is answered
\* with an unsuccessful status, a non-empty error and no quantity; an answer
\* with the quantities is given only when no query failed, and has no error.
C1_NoPartialMetrics ==
    \A r \in Requests :
        Served(r) =>
            /\ (FailedQueries(r) # {} =>
                    /\ req[r].reply.status >= 400
                    /\ req[r].reply.json.Error # Nil
                    /\ req[r].reply.json = ErrorResponse(req[r].reply.json.Error))
            /\ (req[r].reply.status = StatusOK =>
                    /\ FailedQueries(r) = {}
                    /\ req[r].reply.json.Error = Nil)

----------------------------------------------------------------------------
(* C2 *)

\* C2: once queryConsumed has returned without error, the value it returned
\* is pv1 + pv2 + pv3 + touser + dischg - togrid - chg over the values its
\* seven queries returned, each measurement queried once, in that order; and
\* 10, 2, 1, 3, 0.5 give 9.5.
C2_ConsumedFormula ==
    /\ ConsumedFormula(10000, 2000, 1000, 3000, 500) = 9500
    /\ \A r \in Requests :
        (req[r].pc \in {"exported", "imported", "discharged", "maxPv"} \/ Succeeded(r)) =>
            /\ Len(req[r].qlog) >= 10
            /\ \A i \in 4..10 :
                  <<req[r].qlog[i].site, req[r].qlog[i].measurement>> = HandlerQueries[i]
            /\ req[r].consumed =
                  req[r].qlog[4].value + req[r].qlog[5].value + req[r].qlog[6].value
                  + req[r].qlog[7].value + req[r].qlog[8].value
                  - req[r].qlog[9].value - req[r].qlog[10].value

\* queryConsumed has returned 9.5 from 10 generated, 2 imported, 1
\* discharged, 3 exported and 0.5 charged
C2_Witness ==
    \E r \in Requests :
        /\ req[r].pc = "exported"
        /\ req[r].consumedOf = [generated |-> 10000, touser |-> 2000, dischg |-> 1000,
                                togrid |-> 3000, chg |-> 500]
        /\ req[r].consumed = 9500

----------------------------------------------------------------------------
(* C3 *)

\* C3, as claimed: for day, week and month and every instant, the start is
\* strictly before that instant, and for day it is local midnight plus one
\* minute.
C3_StartBeforeNow ==
    (probe.called /\ probe.token \in Timeframes) =>
        /\ probe.out.err = Nil
        /\ probe.out.time.unix < probe.now.unix
        /\ (probe.token = "day" =>
               probe.out.time.unix = LocalMidnightUnix(probe.now) + 60 * GraceMinute)

\* C3, amended: for week and month the start is strictly before the instant;
\* for day it is local midnight of the instant's day plus one minute, which
\* is strictly before the instant exactly when the instant is later than
\* 00:01:00 local time.  The start is a UTC time.
C3_StartBeforeNowAfterGrace ==
    (probe.called /\ probe.token \in Timeframes) =>
        /\ probe.out.err = Nil
        /\ probe.out.time.loc = "UTC"
        /\ (probe.token \in {"week", "month"} =>
               probe.out.time.unix < probe.now.unix)
        /\ (probe.token = "day" =>
               /\ probe.out.time.unix = LocalMidnightUnix(probe.now) + 60 * GraceMinute
               /\ (probe.out.time.unix < probe.now.unix
                     <=> LocalSecondOfDay(probe.now) > 60 * GraceMinute))

\* the day window asked for in the first minute of a local day: the start is
\* not before the instant
C3_Witness ==
    /\ probe.called
    /\ probe.token = "day"
    /\ LocalSecondOfDay(probe.now) < 60 * GraceMinute
    /\ probe.out.time.unix > probe.now.unix

----------------------------------------------------------------------------
(* C4 *)

\* C4: calculateRangeStart fails with the invalid-timeframe error for every
\* token outside day, week and month, the empty one included; a request
\* without the parameter runs with day; a request with an invalid token
\* issues no store query and is answered with that error.
C4_InvalidTimeframe ==
    /\ \A token \in (Tokens \cup ProbeTokens) \ Timeframes :
          calculateRangeStart(token).err = <<"invalid timeframe", token>>
    /\ \A r \in Requests :
          req[r].method = "GET" =>
              /\ (req[r].param = "" => req[r].timeframe = "day")
              /\ (req[r].param = "" /\ req[r].pc = "done" /\ req[r].err # Nil =>
                     req[r].err[1] # "invalid timeframe")
              /\ (req[r].param \notin (Timeframes \cup {""}) =>
                     /\ req[r].qlog = <<>>
                     /\ req[r].pc \in {"generated", "done"}
                     /\ (req[r].pc = "done" =>
                            req[r].reply.json.Error
                               = <<"invalid timeframe", req[r].param>>))

\* a request with the token year has been answered, without a store query
C4_Witness ==
    \E r \in Requests :
        /\ Served(r)
        /\ req[r].param = "year"
        /\ req[r].qlog = <<>>
        /\ req[r].reply.json.Error = <<"invalid timeframe", "year">>

----------------------------------------------------------------------------
(* C5 *)

\* C5: a GET request with an unrecognised timeframe is answered with 400 Bad
\* Request.
C5_InvalidTimeframeIsBadRequest ==
    \A r \in Requests :
        (Served(r) /\ req[r].param \notin (Timeframes \cup {""})) =>
            req[r].reply.status = StatusBadRequest

----------------------------------------------------------------------------
(* C6 *)

\* C6: whenever the store call of a measurement query fails, at submission
\* or while its result is read, queryMeasurement returns an error that names
\* the measurement and the cause, and no value as a success.
C6_StoreFailureIsError ==
    \A r \in Requests :
        \A i \in DOMAIN req[r].qlog :
            StoreFailed(req[r].qlog[i]) =>
                /\ Len(req[r].qlog[i].err) = 3
                /\ req[r].qlog[i].err[2] = req[r].qlog[i].measurement
                /\ req[r].qlog[i].err[3] # Nil

----------------------------------------------------------------------------
(* C7 *)

\* C7, as claimed: a request issues at most 9 store queries.
C7_AtMostNineQueries ==
    \A r \in Requests : Len(req[r].qlog) <= 9

\* C7, amended: a request issues at most 14 store queries, one after the
\* other in a fixed order: the 3 PV queries for generated, then inside
\* consumed the 3 PV queries again and imported, discharged, exported and
\* charged, then exported, imported, discharged and maxPv; a request that is
\* answered with the quantities has issued all 14.
C7_FourteenQueries ==
    \A r \in Requests :
        /\ Len(req[r].qlog) <= Len(HandlerQueries)
        /\ \A i \in DOMAIN req[r].qlog :
              <<req[r].qlog[i].site, req[r].qlog[i].measurement>> = HandlerQueries[i]
        /\ (Succeeded(r) => Len(req[r].qlog) = Len(HandlerQueries))

\* a request answered with the quantities, after 14 queries
C7_Witness ==
    \E r \in Requests : Succeeded(r) /\ Len(req[r].qlog) = 14

----------------------------------------------------------------------------
(* C8 *)

\* the results of the 14 queries of a request that runs alone
AloneQueries(timeframe) ==
    [i \in DOMAIN HandlerQueries |->
        queryMeasurement(HandlerQueries[i][2], calculateRangeStart(timeframe).time)]

AloneAnswer(qs) ==
    IF \E i \in DOMAIN qs : qs[i].err # Nil
    THEN [status |-> StatusInternalServerError, contentType |-> "", text |-> "",
          json |-> ErrorResponse(qs[Min({ i \in DOMAIN qs : qs[i].err # Nil })].err)]
    ELSE [status |-> StatusOK, contentType |-> "application/json", text |-> "",
          json |-> Response(qs[1].value + qs[2].value + qs[3].value,
                            ConsumedFormula(qs[4].value + qs[5].value + qs[6].value,
                                            qs[7].value, qs[8].value, qs[9].value,
                                            qs[10].value),
                            qs[11].value, qs[12].value, qs[13].value,
                            ToKilowatts(qs[14].value), Nil)]

\* the answer to a request that is served alone on the data as they are
AloneReply(method, param) ==
    IF method # "GET"
    THEN [status |-> StatusMethodNotAllowed, contentType |-> "text/plain",
          text |-> "Method not allowed", json |-> ErrorResponse(Nil)]
    ELSE IF calculateRangeStart(IF param = "" THEN "day" ELSE param).err # Nil
    THEN [status |-> StatusInternalServerError, contentType |-> "", text |-> "",
          json |-> ErrorResponse(
                      calculateRangeStart(IF param = "" THEN "day" ELSE param).err)]
    ELSE AloneAnswer(AloneQueries(IF param = "" THEN "day" ELSE param))

\* C8: with requests served concurrently on the same data, under every
\* interleaving of their queries, each answered request has the answer it
\* would have had alone, and the configuration and the store are as they
\* were at start-up.
C8_Isolation ==
    /\ config = loadConfig
    /\ points = FixturePoints
    /\ \A r \in Requests :
          req[r].pc = "done" => req[r].reply = AloneReply(req[r].method, req[r].param)

\* one request has been answered with the quantities while another one with
\* the same timeframe is between its queries
C8_Witness ==
    /\ Succeeded("r1")
    /\ req["r1"].reply.json.Consumed = 9500
    /\ req["r2"].pc = "consumed"
    /\ req["r2"].total = 0
    /\ req["r2"].param = req["r1"].param

----------------------------------------------------------------------------
(* C9 *)

\* C9: once a query of a request has failed, the request issues no further
\* store query, and the error in the answer is the error of that first
\* failed query.
C9_FailFast ==
    \A r \in Requests :
        /\ \A i \in DOMAIN req[r].qlog :
              QueryFailed(req[r].qlog[i]) => i = Len(req[r].qlog)
        /\ (Served(r) /\ FailedQueries(r) # {} =>
               req[r].reply.json.Error = req[r].qlog[Min(FailedQueries(r))].err)

----------------------------------------------------------------------------
(* C10 *)

\* the values the handler's own queries returned are those queryConsumed's
\* queries of the same measurements returned
SameValuesTwice(log) ==
    /\ log[1].value = log[4].value
    /\ log[2].value = log[5].value
    /\ log[3].value = log[6].value
    /\ log[12].value = log[7].value
    /\ log[13].value = log[8].value
    /\ log[11].value = log[9].value

\* consumed of an answer is the formula over the answer's other quantities
\* and the charge queryConsumed queried
Balanced(r) ==
    req[r].reply.json.Consumed =
        req[r].reply.json.Generated + req[r].reply.json.Imported
        + req[r].reply.json.Discharged - req[r].reply.json.Exported
        - req[r].consumedOf.chg

\* C10, as claimed: in every answer with the quantities, consumed is
\* generated + imported + discharged - exported - charged over the values of
\* that answer, whatever the store and the clock did during the request.
C10_ConsumedOfReported ==
    \A r \in Requests : Succeeded(r) => Balanced(r)

\* C10, amended: that holds in every answer of a request whose two queries
\* of each measurement (the handler's own and the one inside queryConsumed)
\* returned the same value, as they do when no point is written and the
\* window does not move between them.
C10_ConsumedOfReportedWhenSame ==
    \A r \in Requests :
        (Succeeded(r) /\ SameValuesTwice(req[r].qlog)) => Balanced(r)

\* an answer whose quantities are those of the data at start-up
C10_Witness ==
    \E r \in Requests :
        /\ Succeeded(r)
        /\ SameValuesTwice(req[r].qlog)
        /\ req[r].reply.json.Generated = 10000
        /\ req[r].reply.json.Exported = 3000
        /\ req[r].reply.json.Imported = 2000
        /\ req[r].reply.json.Consumed = 9500

====
